---- MODULE Spec2Model ----
(***************************************************************************)
(* Bard: playback position -> sentence resolution (database.py),           *)
(* narrative context assembly with token truncation (services/context.py)  *)
(* and the /ask answer pipeline (api/routes/qa.py).                        *)
(*                                                                         *)
(* A text is a sequence of one-character strings.  NULL columns and        *)
(* Optional values are the empty sequence <<>>, a present value v is <<v>>.*)
(***************************************************************************)
EXTENDS Integers, Sequences, FiniteSets, TLC

VARIABLES chapters, sentences, settings, txn, last_resolve, last_context, last_truncate,
          last_agent,
          pc, request, current_sentence, context, context_stats,
          answer_text, audio_url, response, calls

vars == <<chapters, sentences, settings, txn, last_resolve, last_context, last_truncate,
          last_agent,
          pc, request, current_sentence, context, context_stats,
          answer_text, audio_url, response, calls>>

store_vars == <<chapters, sentences>>

ask_vars == <<pc, request, current_sentence, context, context_stats,
              answer_text, audio_url, response, calls>>

----------------------------------------------------------------------------
(* Bounds of the model.                                                    *)

MaxChapters == 2

MaxPerChapter == 2

MaxSentences == 3

MaxTime == 2

MaxBudget == 6

MaxPieces == 3

(* Program constants.                                                      *)

DefaultMaxContextTokens == 100000

ChapterWindow == 200

SentenceWindow == 100

(* Settings.max_context_words *)
DefaultMaxContextWords == 2000

(* The largest small value of max_context_words the settings are given. *)
MaxWords == 2

LongLen == 110

----------------------------------------------------------------------------
(* Python str helpers.                                                     *)

None == <<>>

Some(v) == <<v>>

Min(S) == CHOOSE x \in S : \A y \in S : x <= y

Max(S) == 0 - Min({0 - x : x \in S})

Whitespace == {" ", "\n"}

Digits == {"0", "1", "2", "3", "4", "5", "6", "7", "8", "9"}

Punct == {".", "-"}

IsLetter(c) == c \notin Whitespace \cup Digits \cup Punct

(* s[i:] for 0 <= i *)
SliceFrom(s, i) == SubSeq(s, i + 1, Len(s))

(* Positions (0-based) where pat occurs in s; the last character is        *)
(* compared first.                                                         *)
Occurrences(s, pat) ==
    {i \in 0..(Len(s) - Len(pat)) :
         /\ pat # <<>> => s[i + Len(pat)] = pat[Len(pat)]
         /\ \A j \in 1..Len(pat) : s[i + j] = pat[j]}

(* str.find: the lowest index of pat in s, -1 when absent. *)
Find(s, pat) ==
    LET lowest(found) == IF found = {} THEN -1 ELSE Min(found)
    IN  lowest(Occurrences(s, pat))

(* pat in s *)
Contains(s, pat) == Occurrences(s, pat) # {}

(* str.strip(): leading and trailing whitespace removed. *)
Strip(s) ==
    LET keep == {i \in 1..Len(s) : s[i] \notin Whitespace}
    IN  IF keep = {} THEN <<>> ELSE SubSeq(s, Min(keep), Max(keep))

RECURSIVE Join(_, _)
(* sep.join(parts) *)
Join(parts, sep) ==
    IF parts = <<>> THEN <<>>
    ELSE IF Len(parts) = 1 THEN parts[1]
    ELSE parts[1] \o sep \o Join(Tail(parts), sep)

(* str(n) for the chapter ids of the model. *)
Str(n) ==
    IF n < 10 THEN <<CHOOSE d \in Digits : d = ToString(n)>>
    ELSE <<"9", "9">>

----------------------------------------------------------------------------
(* tiktoken.  encode() cuts a text into consecutive pieces and decode()    *)
(* concatenates them, so an encoding is the set of positions where a piece *)
(* starts.  The pieces follow the pre-tokenizer pattern of the encoding:   *)
(* a run of letters with one optional leading space; a run of digits; a    *)
(* run of punctuation with one optional leading space and its trailing     *)
(* newlines; a run of other whitespace.  Every piece is one token.         *)

IsTokenStart(s, i) ==
    \/ i = 1
    \/ /\ i > 1
       /\ LET p == s[i - 1]
              x == s[i]
              attaches == /\ x = " "
                          /\ i < Len(s)
                          /\ (IsLetter(s[i + 1]) \/ s[i + 1] \in Punct)
          IN  \/ IsLetter(x) /\ ~IsLetter(p) /\ p # " "
              \/ x \in Digits /\ p \notin Digits
              \/ x \in Punct /\ p \notin Punct /\ p # " "
              \/ x = "\n" /\ p \notin Whitespace /\ p \notin Punct
              \/ attaches
              \/ x = " " /\ ~attaches /\ p \notin Whitespace

(* The start positions of encoding.encode(s). *)
Encode(s) == {i \in 1..Len(s) : IsTokenStart(s, i)}

(* len(encoding.encode(s)) *)
TokenCount(s) == Cardinality(Encode(s))

(* Variant: the slice tokens[:n], the oldest tokens kept. *)
DecodeFirst(s, n) ==
    LET starts == Encode(s)
        later == {i \in starts : Cardinality({j \in starts : j < i}) >= n}
    IN  IF n <= 0 THEN <<>>
        ELSE IF later = {} THEN s
        ELSE SubSeq(s, 1, Min(later) - 1)

(* encoding.decode(tokens[-n:]), the slice as Python takes it: the last n  *)
(* tokens for n > 0, every token for n = 0 (tokens[-0:] is tokens[0:]),    *)
(* and tokens[k:] for n = -k < 0.                                          *)
DecodeLast(s, n) ==
    LET starts == Encode(s)
        m == Cardinality(starts)
        keep == IF n > 0 THEN Min({n, m}) ELSE IF n = 0 THEN m ELSE Max({m + n, 0})
    IN  IF keep = 0 THEN <<>>
        ELSE LET from == CHOOSE i \in starts : Cardinality({j \in starts : j >= i}) = keep
             IN  SubSeq(s, from, Len(s))

----------------------------------------------------------------------------
(* Rows of the chapters and sentences tables (database.py SCHEMA).         *)

Sentence(id, ch, seq, text, st, en) ==
    [sentence_id |-> id, chapter_id |-> ch, sequence |-> seq, text |-> text,
     start_time |-> st, end_time |-> en]

(* A chapters row; title=f"Luke {chapter_num}" (text_prep.py). *)
Chapter(ch) ==
    [chapter_id |-> ch, title |-> <<"L", "u", "k", "e", " ">> \o Str(ch),
     audio_path |-> None, duration_seconds |-> None]

(* SQL comparison with a nullable REAL column: NULL compares as not true. *)
ColLe(col, v) == col # None /\ col[1] <= v

ColGe(col, v) == col # None /\ col[1] >= v

(* SELECT ... ORDER BY key LIMIT 1 returns a row whose key is extreme; the *)
(* order of rows with equal keys is undefined, so each query below is the  *)
(* set of rows its fetchone() may return (empty: no row).                  *)

(* Every sentence of the chapter. *)
ChapterRows(rows, chapter_id) == {r \in rows : r.chapter_id = chapter_id}

(* Variant: the first query ordered by start_time ascending. *)
ExactMatchAscending(rows, chapter_id, audio_time) ==
    LET hit == {r \in ChapterRows(rows, chapter_id) :
                    ColLe(r.start_time, audio_time) /\ ColGe(r.end_time, audio_time)}
    IN  {r \in hit : \A o \in hit : o.start_time[1] >= r.start_time[1]}

(* First query of find_sentence_at_time:                                   *)
(* start_time <= ? AND end_time >= ? ORDER BY start_time DESC LIMIT 1      *)
ExactMatch(rows, chapter_id, audio_time) ==
    LET hit == {r \in ChapterRows(rows, chapter_id) :
                    ColLe(r.start_time, audio_time) /\ ColGe(r.end_time, audio_time)}
    IN  {r \in hit : \A o \in hit : o.start_time[1] <= r.start_time[1]}

(* Variant: the second query ordered by start_time ascending. *)
MostRecentBeforeAscending(rows, chapter_id, audio_time) ==
    LET hit == {r \in ChapterRows(rows, chapter_id) : ColLe(r.start_time, audio_time)}
    IN  {r \in hit : \A o \in hit : r.start_time[1] <= o.start_time[1]}

(* Second query: start_time <= ? ORDER BY start_time DESC LIMIT 1 *)
MostRecentBefore(rows, chapter_id, audio_time) ==
    LET hit == {r \in ChapterRows(rows, chapter_id) : ColLe(r.start_time, audio_time)}
    IN  {r \in hit : \A o \in hit : o.start_time[1] <= r.start_time[1]}

(* Variant: the third query without its WHERE chapter_id = ? condition. *)
FirstOfAnyChapter(rows, chapter_id) ==
    {r \in rows : \A o \in rows : r.sequence <= o.sequence}

(* Variant: the third query left out. *)
NoFirstOfChapter(rows, chapter_id) == {}

(* Variant: the third query ordered by sequence descending. *)
LastOfChapter(rows, chapter_id) ==
    LET hit == ChapterRows(rows, chapter_id)
    IN  {r \in hit : \A o \in hit : r.sequence >= o.sequence}

(* Third query: ORDER BY sequence LIMIT 1 *)
FirstOfChapter(rows, chapter_id) ==
    LET hit == ChapterRows(rows, chapter_id)
    IN  {r \in hit : \A o \in hit : r.sequence <= o.sequence}

(* Variant: as the docstring has it, the second query takes the next       *)
(* sentence, start_time > ? ORDER BY start_time LIMIT 1.                   *)
FindSentenceAtTimeNext(rows, chapter_id, audio_time) ==
    LET q1 == ExactMatch(rows, chapter_id, audio_time)
        after == {r \in ChapterRows(rows, chapter_id) :
                      r.start_time # None /\ r.start_time[1] > audio_time}
        q2 == {r \in after : \A o \in after : r.start_time[1] <= o.start_time[1]}
        q3 == FirstOfChapter(rows, chapter_id)
    IN  IF q1 # {} THEN {Some(r) : r \in q1}
        ELSE IF q2 # {} THEN {Some(r) : r \in q2}
        ELSE IF q3 # {} THEN {Some(r) : r \in q3}
        ELSE {None}

(* find_sentence_at_time: the set of values the call may return, each      *)
(* Some(row) or None.                                                      *)
FindSentenceAtTime(rows, chapter_id, audio_time) ==
    LET q1 == ExactMatch(rows, chapter_id, audio_time)
        q2 == MostRecentBefore(rows, chapter_id, audio_time)
        q3 == FirstOfChapter(rows, chapter_id)
    IN  IF q1 # {} THEN {Some(r) : r \in q1}
        ELSE IF q2 # {} THEN {Some(r) : r \in q2}
        ELSE IF q3 # {} THEN {Some(r) : r \in q3}
        ELSE {None}

(* ORDER BY of a result set: the rows as a list, smallest key first; key   *)
(* maps each row to its sort key.                                          *)
RECURSIVE OrderBy(_, _)
OrderBy(rows, key) ==
    IF rows = {} THEN <<>>
    ELSE LET r == CHOOSE x \in rows : \A y \in rows : key[x] <= key[y]
         IN  <<r>> \o OrderBy(rows \ {r}, key)

(* get_chapter_sentences: WHERE chapter_id = ? ORDER BY sequence *)
GetChapterSentences(rows, chapter_id) ==
    OrderBy(ChapterRows(rows, chapter_id), [r \in rows |-> r.sequence])

(* Variant: ORDER BY chapter_id DESC, sequence DESC. *)
GetContextSentencesDescending(rows, up_to_sentence_id) ==
    OrderBy({r \in rows : r.sentence_id <= up_to_sentence_id},
            [r \in rows |-> 0 - (r.chapter_id * (MaxPerChapter + 1) + r.sequence)])

(* Variant: only the sentences of the chapter of the current sentence. *)
GetContextSentencesOfChapter(rows, up_to_sentence_id) ==
    OrderBy({r \in rows :
                 /\ r.sentence_id <= up_to_sentence_id
                 /\ \E c \in rows : /\ c.sentence_id = up_to_sentence_id
                                    /\ c.chapter_id = r.chapter_id},
            [r \in rows |-> r.chapter_id * (MaxPerChapter + 1) + r.sequence])

(* Variant: the bound on sentence_id off by one. *)
GetContextSentencesOffByOne(rows, up_to_sentence_id) ==
    OrderBy({r \in rows : r.sentence_id <= up_to_sentence_id + 1},
            [r \in rows |-> r.chapter_id * (MaxPerChapter + 1) + r.sequence])

(* Variant: the bound on sentence_id strict. *)
GetContextSentencesBefore(rows, up_to_sentence_id) ==
    OrderBy({r \in rows : r.sentence_id < up_to_sentence_id},
            [r \in rows |-> r.chapter_id * (MaxPerChapter + 1) + r.sequence])

(* get_context_sentences: WHERE sentence_id <= ? ORDER BY chapter_id, sequence *)
GetContextSentences(rows, up_to_sentence_id) ==
    OrderBy({r \in rows : r.sentence_id <= up_to_sentence_id},
            [r \in rows |-> r.chapter_id * (MaxPerChapter + 1) + r.sequence])

----------------------------------------------------------------------------
(* services/context.py                                                     *)

SentenceEnd == <<".", " ">>

ChapterMark == <<"-", "-", "-", " ", "C", "h", "a", "p", "t", "e", "r">>

Ellipsis == <<".", ".", ".", " ">>

(* Variant: the header without the chapter id. *)
ChapterHeaderWithoutId(chapter_id) ==
    <<"\n">> \o ChapterMark \o <<" ", "-", "-", "-", "\n">>

(* f"\n--- Chapter {current_chapter} ---\n" *)
ChapterHeader(chapter_id) ==
    <<"\n">> \o ChapterMark \o <<" ">> \o Str(chapter_id) \o <<" ", "-", "-", "-", "\n">>

(* Variant: the text returned as it is only below the budget. *)
TruncateToTokensStrict(text, max_tokens) ==
    IF TokenCount(text) < max_tokens THEN text
    ELSE LET truncated_text == DecodeLast(text, max_tokens)
             sentence_start == Find(truncated_text, SentenceEnd)
             chapter_start == Find(truncated_text, ChapterMark)
         IN  IF chapter_start # -1 /\ chapter_start < ChapterWindow
                 THEN SliceFrom(truncated_text, chapter_start)
             ELSE IF sentence_start # -1 /\ sentence_start < SentenceWindow
                 THEN SliceFrom(truncated_text, sentence_start + 2)
             ELSE Ellipsis \o truncated_text

(* Variant: one window for both searches. *)
TruncateToTokensOneWindow(text, max_tokens) ==
    IF TokenCount(text) <= max_tokens THEN text
    ELSE LET truncated_text == DecodeLast(text, max_tokens)
             sentence_start == Find(truncated_text, SentenceEnd)
             chapter_start == Find(truncated_text, ChapterMark)
         IN  IF chapter_start # -1 /\ chapter_start < ChapterWindow
                 THEN SliceFrom(truncated_text, chapter_start)
             ELSE IF sentence_start # -1 /\ sentence_start < ChapterWindow
                 THEN SliceFrom(truncated_text, sentence_start + 2)
             ELSE Ellipsis \o truncated_text

(* truncate_to_tokens *)
TruncateToTokens(text, max_tokens) ==
    IF TokenCount(text) <= max_tokens THEN text
    ELSE LET truncated_text == DecodeLast(text, max_tokens)
             sentence_start == Find(truncated_text, SentenceEnd)
             chapter_start == Find(truncated_text, ChapterMark)
         IN  IF chapter_start # -1 /\ chapter_start < ChapterWindow
                 THEN SliceFrom(truncated_text, chapter_start)
             ELSE IF sentence_start # -1 /\ sentence_start < SentenceWindow
                 THEN SliceFrom(truncated_text, sentence_start + 2)
             ELSE Ellipsis \o truncated_text

(* The loop of build_context over the fetched sentences: a header whenever *)
(* the chapter changes, then the sentence text.                            *)
RECURSIVE ContextParts(_, _)
ContextParts(list, current_chapter) ==
    IF list = <<>> THEN <<>>
    ELSE LET sentence == Head(list)
         IN  (IF Some(sentence.chapter_id) # current_chapter
                  THEN <<ChapterHeader(sentence.chapter_id)>> ELSE <<>>)
             \o <<sentence.text>>
             \o ContextParts(Tail(list), Some(sentence.chapter_id))

(* build_context; max_tokens is None or Some(n). *)
BuildContext(rows, cfg, current_sentence_id, max_tokens) ==
    LET limit == IF max_tokens = None THEN cfg.max_context_tokens ELSE max_tokens[1]
        list == GetContextSentences(rows, current_sentence_id)
        joined == Join(ContextParts(list, None), <<" ">>)
    IN  IF list = <<>> THEN <<>>
        ELSE Strip(IF limit # 0 THEN TruncateToTokens(joined, limit) ELSE joined)

(* Variant: the counts taken over every stored sentence. *)
GetContextStatsWholeStore(rows, current_sentence_id) ==
    [sentence_count |-> Cardinality(rows),
     chapter_count |-> Cardinality({r.chapter_id : r \in rows}),
     estimated_tokens |-> 0]

(* Variant: chapter_count taken over the chapters of the whole store. *)
GetContextStatsAllChapters(rows, current_sentence_id) ==
    LET list == GetContextSentences(rows, current_sentence_id)
        total_text == Join([i \in 1..Len(list) |-> list[i].text], <<" ">>)
    IN  [sentence_count |-> Len(list),
         chapter_count |-> Cardinality({r.chapter_id : r \in rows}),
         estimated_tokens |-> TokenCount(total_text)]

(* Variant: sentence_count taken from the number of chapters. *)
GetContextStatsCountingChapters(rows, current_sentence_id) ==
    LET list == GetContextSentences(rows, current_sentence_id)
        total_text == Join([i \in 1..Len(list) |-> list[i].text], <<" ">>)
    IN  IF list = <<>>
            THEN [sentence_count |-> 0, chapter_count |-> 0, estimated_tokens |-> 0]
        ELSE [sentence_count |-> Cardinality({list[i].chapter_id : i \in 1..Len(list)}),
              chapter_count |-> Cardinality({list[i].chapter_id : i \in 1..Len(list)}),
              estimated_tokens |-> TokenCount(total_text)]

(* get_context_stats *)
GetContextStats(rows, current_sentence_id) ==
    LET list == GetContextSentences(rows, current_sentence_id)
        total_text == Join([i \in 1..Len(list) |-> list[i].text], <<" ">>)
    IN  IF list = <<>>
            THEN [sentence_count |-> 0, chapter_count |-> 0, estimated_tokens |-> 0]
        ELSE [sentence_count |-> Len(list),
              chapter_count |-> Cardinality({list[i].chapter_id : i \in 1..Len(list)}),
              estimated_tokens |-> TokenCount(total_text)]

----------------------------------------------------------------------------
(* Store writers (database.py).                                            *)

(* insert_chapter: INSERT OR REPLACE INTO chapters *)
InsertChapter(chapter) ==
    chapters' = {c \in chapters : c.chapter_id # chapter.chapter_id} \cup {chapter}

(* insert_sentences_batch: INSERT OR REPLACE INTO sentences, one commit *)
InsertSentencesBatch(batch) ==
    sentences' = {r \in sentences : \A b \in batch : b.sentence_id # r.sentence_id}
                 \cup batch

(* update_alignments_batch: UPDATE sentences SET start_time, end_time      *)
(* WHERE sentence_id, for every (sentence_id, start, end), one commit.     *)
UpdateAlignmentsBatch(alignments) ==
    sentences' =
        {IF \E a \in alignments : a.sentence_id = r.sentence_id
             THEN LET a == CHOOSE a \in alignments : a.sentence_id = r.sentence_id
                  IN  [r EXCEPT !.start_time = Some(a.start), !.end_time = Some(a.end)]
             ELSE r : r \in sentences}

(* reset_db: both tables dropped and created empty *)
ResetDb ==
    /\ chapters' = {}
    /\ sentences' = {}
    /\ UNCHANGED <<settings, txn, last_agent, last_resolve, last_context, last_truncate, ask_vars>>

----------------------------------------------------------------------------
(* Ingestion (preprocessing/text_prep.py, preprocessing/alignment.py).     *)

Letters == <<"w", "x", "y", "z", "v", "u", "q", "k">>

(* The sentence texts of the model.  The text of sentence id is built from *)
(* a letter of its own, so no sentence text occurs in another one or in a  *)
(* chapter header: plain "w.", open "w w" (no full stop), abbr "w. w."     *)
(* (a full stop inside, as after an abbreviation), long (one long word).   *)
TextOf(id, shape) ==
    LET c == Letters[id]
    IN  CASE shape = "plain" -> <<c, ".">>
          [] shape = "open" -> <<c, " ", c>>
          [] shape = "abbr" -> <<c, ".", " ", c, ".">>
          [] shape = "long" -> [i \in 1..LongLen |-> c]

AllShapes == {"plain", "open", "abbr", "long"}

(* prepare_luke_text: the sentences of one chapter, sequence from 0, ids   *)
(* from the global counter, no alignment yet.                              *)
PreparedSentences(chapter_id, first_id, shapes) ==
    {Sentence(first_id + i - 1, chapter_id, i - 1, TextOf(first_id + i - 1, shapes[i]),
              None, None) : i \in 1..Len(shapes)}

(* ingest_to_database, first commit of the loop body: the next chapter. *)
IngestChapter ==
    /\ Cardinality(chapters) < MaxChapters
    /\ \A c \in chapters : ChapterRows(sentences, c.chapter_id) # {}
    /\ InsertChapter(Chapter(Cardinality(chapters) + 1))
    /\ UNCHANGED <<sentences, settings, txn, last_agent, last_resolve, last_context, last_truncate, ask_vars>>

(* ingest_to_database, second commit of the loop body: its sentences. *)
IngestSentences(Shapes) ==
    \E c \in chapters :
        /\ ChapterRows(sentences, c.chapter_id) = {}
        /\ \E n \in 1..MaxPerChapter :
               /\ Cardinality(sentences) + n <= MaxSentences
               /\ \E shapes \in [1..n -> Shapes] :
                      InsertSentencesBatch(
                          PreparedSentences(c.chapter_id, Cardinality(sentences) + 1, shapes))
        /\ UNCHANGED <<chapters, settings, txn, last_agent, last_resolve, last_context, last_truncate, ask_vars>>

(* The fragment lists the aligner may return: n fragments that follow one  *)
(* another along the audio, begin <= end <= the next begin, from time lo.  *)
RECURSIVE FragmentLists(_, _)
FragmentLists(n, lo) ==
    IF n = 0 THEN {<<>>}
    ELSE UNION {{<<f>> \o rest : rest \in FragmentLists(n - 1, f.end)} :
                  f \in {g \in [begin : lo..MaxTime, end : lo..MaxTime] : g.begin <= g.end}}

(* parse_aeneas_output: fragment i goes to the i-th sentence by sequence;  *)
(* fragments beyond the last sentence are dropped.                         *)
ParseAeneasOutput(rows, chapter_id, fragments) ==
    LET list == GetChapterSentences(rows, chapter_id)
    IN  {[sentence_id |-> list[i].sentence_id,
          start |-> fragments[i].begin, end |-> fragments[i].end] :
            i \in {j \in 1..Len(fragments) : j <= Len(list)}}

(* align_chapter: skipped when the first sentence is aligned and force is  *)
(* not set, otherwise the parsed alignment is written in one batch.        *)
AlignChapter(chapter_id, force, fragments) ==
    LET list == GetChapterSentences(sentences, chapter_id)
    IN  /\ IF ~force /\ list # <<>> /\ list[1].start_time # None
              THEN UNCHANGED sentences
              ELSE UpdateAlignmentsBatch(ParseAeneasOutput(sentences, chapter_id, fragments))
        /\ UNCHANGED <<chapters, settings, txn, last_agent, last_resolve, last_context, last_truncate, ask_vars>>

(* align_all_chapters over the chapters of the store, force as given on   *)
(* the command line.                                                       *)
Align(Forces) ==
    \E c \in chapters, force \in Forces :
        \E n \in 0..(Cardinality(ChapterRows(sentences, c.chapter_id)) + 1) :
            \E fragments \in FragmentLists(n, 0) :
                AlignChapter(c.chapter_id, force, fragments)

(* align_chapter for one chapter whose fragments follow one another        *)
(* without a gap, one per sentence: [0, 1], [1, 2], ...                    *)
AlignAdjacent ==
    \E c \in chapters :
        AlignChapter(c.chapter_id, FALSE,
                     [i \in 1..Cardinality(ChapterRows(sentences, c.chapter_id)) |->
                          [begin |-> Min({i - 1, MaxTime}), end |-> Min({i, MaxTime})]])

----------------------------------------------------------------------------
(* Queries applied to the store.                                           *)

(* resolve_current_sentence: the outcomes the call may have. *)
ResolveCurrentSentence(rows, chapter_id, audio_time) ==
    {[raised |-> (found = None), sentence |-> found] :
        found \in FindSentenceAtTime(rows, chapter_id, audio_time)}

(* Variant: the sentence found is taken out of the table. *)
ResolveConsuming ==
    \E chapter_id \in 1..(MaxChapters + 1), audio_time \in (-1)..(MaxTime + 1) :
        \E out \in ResolveCurrentSentence(sentences, chapter_id, audio_time) :
            /\ last_resolve' = Some([chapter_id |-> chapter_id, audio_time |-> audio_time,
                                     raised |-> out.raised, sentence |-> out.sentence])
            /\ sentences' = {r \in sentences : Some(r) # out.sentence}
            /\ UNCHANGED <<chapters, settings, txn, last_agent, last_context, last_truncate, ask_vars>>

(* resolve_current_sentence(chapter_id, audio_time) of one request. *)
Resolve ==
    \E chapter_id \in 1..(MaxChapters + 1), audio_time \in (-1)..(MaxTime + 1) :
        \E out \in ResolveCurrentSentence(sentences, chapter_id, audio_time) :
            /\ last_resolve' = Some([chapter_id |-> chapter_id, audio_time |-> audio_time,
                                     raised |-> out.raised, sentence |-> out.sentence])
            /\ UNCHANGED <<store_vars, settings, txn, last_agent, last_context, last_truncate, ask_vars>>

Budgets == {None} \cup {Some(n) : n \in 0..MaxBudget}

(* build_context(id, max_tokens) and get_context_stats(id) of one request, *)
(* as the routes call them together.                                       *)
Build ==
    \E id \in 0..(MaxSentences + 1), max_tokens \in Budgets :
        /\ last_context' = Some([current_sentence_id |-> id, max_tokens |-> max_tokens,
                                 text |-> BuildContext(sentences, settings, id, max_tokens),
                                 stats |-> GetContextStats(sentences, id)])
        /\ UNCHANGED <<store_vars, settings, txn, last_agent, last_resolve, last_truncate, ask_vars>>

(* The texts handed to truncate_to_tokens: up to n pieces in a row, each a *)
(* word, a sentence end, a blank, a newline, a full stop, a chapter marker,*)
(* a long word or two long words.                                          *)
Pieces ==
    {<<"w">>, SentenceEnd, <<" ">>, <<"\n">>, <<".">>, ChapterMark,
     [i \in 1..LongLen |-> "w"],
     [i \in 1..(2 * LongLen + 1) |-> IF i = LongLen + 1 THEN " " ELSE "w"]}

RECURSIVE Texts(_)
Texts(n) ==
    IF n = 0 THEN {<<>>}
    ELSE LET shorter == Texts(n - 1)
         IN  shorter \cup {t \o piece : t \in shorter, piece \in Pieces}

(* truncate_to_tokens(text, max_tokens) called on its own. *)
Truncate ==
    \E text \in Texts(MaxPieces), max_tokens \in (-1)..MaxBudget :
        /\ last_truncate' = Some([text |-> text, max_tokens |-> max_tokens,
                                  result |-> TruncateToTokens(text, max_tokens)])
        /\ UNCHANGED <<store_vars, settings, txn, last_agent, last_resolve, last_context, ask_vars>>

----------------------------------------------------------------------------
(* POST /ask (api/routes/qa.py ask_question).  Every await and every store *)
(* read is a step; calls records the collaborators invoked, in order.      *)

HttpError(code, detail) == [status |-> code, detail |-> detail]

AskResponse(answer, url, sentence_id, count) ==
    [status |-> 200, answer |-> answer, audio_url |-> url,
     current_sentence_id |-> sentence_id, context_sentence_count |-> count]

(* generate_answer: ValueError without the API key or when the completion  *)
(* holds no content, any other exception from the API call.                *)
GenerateOutcomes(cfg) ==
    IF ~cfg.openai_api_key THEN {"ValueError"} ELSE {"ok", "ValueError", "Exception"}

(* synthesize_answer: ValueError without the voice id or the API key       *)
(* (get_elevenlabs_client), another exception when the stream or the file  *)
(* write fails.                                                            *)
SynthesizeOutcomes(cfg) ==
    IF ~cfg.elevenlabs_voice_id \/ ~cfg.elevenlabs_api_key THEN {"ValueError"}
    ELSE {"ok", "Exception"}

(* The request arrives; AskRequest validates audio_time >= 0. *)
AskStart ==
    /\ pc \in {"idle", "done"}
    /\ \E chapter_id \in 1..(MaxChapters + 1), audio_time \in 0..(MaxTime + 1) :
           request' = Some([chapter_id |-> chapter_id, audio_time |-> audio_time])
    /\ pc' = "resolve"
    /\ current_sentence' = None
    /\ context' = None
    /\ context_stats' = None
    /\ answer_text' = None
    /\ audio_url' = None
    /\ response' = None
    /\ calls' = <<>>
    /\ UNCHANGED <<store_vars, settings, txn, last_agent, last_resolve, last_context, last_truncate>>

(* 1. resolve_current_sentence; ValueError -> 400 *)
AskResolve ==
    /\ pc = "resolve"
    /\ calls' = Append(calls, "resolve_current_sentence")
    /\ \E out \in ResolveCurrentSentence(sentences, request[1].chapter_id,
                                          request[1].audio_time) :
           IF out.raised
               THEN /\ response' = Some(HttpError(400, "Could not resolve sentence"))
                    /\ pc' = "done"
                    /\ UNCHANGED current_sentence
               ELSE /\ current_sentence' = out.sentence
                    /\ pc' = "context"
                    /\ UNCHANGED response
    /\ UNCHANGED <<store_vars, settings, txn, last_agent, last_resolve, last_context, last_truncate, request, context,
                   context_stats, answer_text, audio_url>>

(* 2. build_context(current_sentence.sentence_id) *)
AskBuildContext ==
    /\ pc = "context"
    /\ calls' = Append(calls, "build_context")
    /\ context' = Some(BuildContext(sentences, settings, current_sentence[1].sentence_id, None))
    /\ pc' = "stats"
    /\ UNCHANGED <<store_vars, settings, txn, last_agent, last_resolve, last_context, last_truncate, request,
                   current_sentence, context_stats, answer_text, audio_url, response>>

(* Variant: the empty-context check left out. *)
AskContextStatsUnchecked ==
    /\ pc = "stats"
    /\ calls' = Append(calls, "get_context_stats")
    /\ context_stats' = Some(GetContextStats(sentences, current_sentence[1].sentence_id))
    /\ pc' = "generate"
    /\ UNCHANGED <<store_vars, settings, txn, last_agent, last_resolve, last_context, last_truncate, request,
                   current_sentence, context, answer_text, audio_url, response>>

(* get_context_stats(current_sentence.sentence_id); empty context -> 400 *)
AskContextStats ==
    /\ pc = "stats"
    /\ calls' = Append(calls, "get_context_stats")
    /\ context_stats' = Some(GetContextStats(sentences, current_sentence[1].sentence_id))
    /\ IF context[1] = <<>>
           THEN /\ response' = Some(HttpError(400, "No narrative context available"))
                /\ pc' = "done"
           ELSE /\ pc' = "generate"
                /\ UNCHANGED response
    /\ UNCHANGED <<store_vars, settings, txn, last_agent, last_resolve, last_context, last_truncate, request,
                   current_sentence, context, answer_text, audio_url>>

(* Variant: the call repeated after an exception of the API. *)
AskGenerateRetrying ==
    /\ pc = "generate"
    /\ calls' = Append(calls, "generate_answer")
    /\ \E outcome \in GenerateOutcomes(settings) :
           CASE outcome = "ok" ->
                    /\ answer_text' = Some("answer")
                    /\ pc' = "synthesize"
                    /\ UNCHANGED response
             [] outcome = "ValueError" ->
                    /\ response' = Some(HttpError(500, "LLM error"))
                    /\ pc' = "done"
                    /\ UNCHANGED answer_text
             [] outcome = "Exception" ->
                    /\ Len(calls) < 6
                    /\ UNCHANGED <<pc, response, answer_text>>
    /\ UNCHANGED <<store_vars, settings, txn, last_agent, last_resolve, last_context, last_truncate, request,
                   current_sentence, context, context_stats, audio_url>>

(* 3. generate_answer; ValueError -> 500, Exception -> 500 *)
AskGenerate ==
    /\ pc = "generate"
    /\ calls' = Append(calls, "generate_answer")
    /\ \E outcome \in GenerateOutcomes(settings) :
           CASE outcome = "ok" ->
                    /\ answer_text' = Some("answer")
                    /\ pc' = "synthesize"
                    /\ UNCHANGED response
             [] outcome = "ValueError" ->
                    /\ response' = Some(HttpError(500, "LLM error"))
                    /\ pc' = "done"
                    /\ UNCHANGED answer_text
             [] outcome = "Exception" ->
                    /\ response' = Some(HttpError(500, "Failed to generate answer"))
                    /\ pc' = "done"
                    /\ UNCHANGED answer_text
    /\ UNCHANGED <<store_vars, settings, txn, last_agent, last_resolve, last_context, last_truncate, request,
                   current_sentence, context, context_stats, audio_url>>

(* 4. synthesize_answer; ValueError -> 500, Exception -> audio_url = None; *)
(* then the AskResponse.                                                   *)
AskSynthesize ==
    /\ pc = "synthesize"
    /\ calls' = Append(calls, "synthesize_answer")
    /\ \E outcome \in SynthesizeOutcomes(settings) :
           CASE outcome = "ok" ->
                    /\ audio_url' = Some("/answers/id/audio")
                    /\ response' = Some(AskResponse(answer_text[1], Some("/answers/id/audio"),
                                                    current_sentence[1].sentence_id,
                                                    context_stats[1].sentence_count))
             [] outcome = "ValueError" ->
                    /\ response' = Some(HttpError(500, "TTS error"))
                    /\ UNCHANGED audio_url
             [] outcome = "Exception" ->
                    /\ audio_url' = None
                    /\ response' = Some(AskResponse(answer_text[1], None,
                                                    current_sentence[1].sentence_id,
                                                    context_stats[1].sentence_count))
    /\ pc' = "done"
    /\ UNCHANGED <<store_vars, settings, txn, last_agent, last_resolve, last_context, last_truncate, request,
                   current_sentence, context, context_stats, answer_text>>

----------------------------------------------------------------------------
(* Initial states and specifications.                                      *)

DefaultSettings ==
    [openai_api_key |-> TRUE, elevenlabs_api_key |-> TRUE, elevenlabs_voice_id |-> TRUE,
     max_context_tokens |-> DefaultMaxContextTokens,
     max_context_words |-> DefaultMaxContextWords]

InitWith(cfg) ==
    /\ chapters = {}
    /\ sentences = {}
    /\ settings = cfg
    /\ txn = None
    /\ last_agent = None
    /\ last_resolve = None
    /\ last_context = None
    /\ last_truncate = None
    /\ pc = "idle"
    /\ request = None
    /\ current_sentence = None
    /\ context = None
    /\ context_stats = None
    /\ answer_text = None
    /\ audio_url = None
    /\ response = None
    /\ calls = <<>>

(* Position resolution over ingested and aligned stores. *)
InitResolve == InitWith(DefaultSettings)

NextResolve ==
    \/ last_resolve = None /\ IngestChapter
    \/ last_resolve = None /\ IngestSentences({"plain"})
    \/ last_resolve = None /\ Align({FALSE})
    \/ last_resolve = None /\ Resolve

SpecResolve == InitResolve /\ [][NextResolve]_vars

(* Context assembly over ingested stores. *)
InitContext == InitWith(DefaultSettings)

NextContext ==
    \/ last_context = None /\ IngestChapter
    \/ last_context = None /\ IngestSentences(AllShapes)
    \/ last_context = None /\ Build

SpecContext == InitContext /\ [][NextContext]_vars

(* Serving: once the store is ingested and aligned, requests resolve       *)
(* positions again and again and a context is built at any point between.  *)
InitServe == InitWith(DefaultSettings)

NextServe ==
    \/ last_resolve = None /\ last_context = None /\ IngestChapter
    \/ last_resolve = None /\ last_context = None /\ IngestSentences({"plain"})
    \/ last_resolve = None /\ last_context = None /\ AlignAdjacent
    \/ Resolve
    \/ last_context = None /\ Build

SpecServe == InitServe /\ [][NextServe]_vars

(* truncate_to_tokens over texts and budgets of its own. *)
InitTruncate == InitWith(DefaultSettings)

NextTruncate == last_truncate = None /\ Truncate

SpecTruncate == InitTruncate /\ [][NextTruncate]_vars

(* The answer pipeline, with ingestion running beside it.  Settings are    *)
(* read from the environment once (config.get_settings is cached).         *)
SettingsChoices ==
    {DefaultSettings,
     [DefaultSettings EXCEPT !.openai_api_key = FALSE],
     [DefaultSettings EXCEPT !.elevenlabs_api_key = FALSE],
     [DefaultSettings EXCEPT !.elevenlabs_voice_id = FALSE],
     [DefaultSettings EXCEPT !.max_context_tokens = MaxBudget]}

Init == \E cfg \in SettingsChoices : InitWith(cfg)

Next ==
    \/ IngestChapter
    \/ IngestSentences({"plain"})
    \/ ResetDb
    \/ AskStart
    \/ AskResolve
    \/ AskBuildContext
    \/ AskContextStats
    \/ AskGenerate
    \/ AskSynthesize

Spec == Init /\ [][Next]_vars

----------------------------------------------------------------------------
(* Properties of position resolution (SpecResolve).                        *)

(* The request and the result of the resolve call of this behaviour. *)
Resolved == last_resolve[1]

(* The rows of the requested chapter, and those whose interval holds the   *)
(* requested time.                                                         *)
AskedRows == {r \in sentences : r.chapter_id = Resolved.chapter_id}

Holding ==
    {r \in AskedRows : /\ r.start_time # None /\ r.end_time # None
                       /\ r.start_time[1] <= Resolved.audio_time
                       /\ Resolved.audio_time <= r.end_time[1]}

StartedBefore ==
    {r \in AskedRows : r.start_time # None /\ r.start_time[1] <= Resolved.audio_time}

(* C2 - Resolution totality: for a chapter with at least one sentence,     *)
(* aligned or not, and any audio time, resolve_current_sentence does not   *)
(* raise and returns a stored sentence of the requested chapter.           *)
ResolutionTotality ==
    (last_resolve # None /\ AskedRows # {}) =>
        /\ ~Resolved.raised
        /\ Resolved.sentence # None
        /\ Resolved.sentence[1] \in AskedRows

(* A negative time asked of a chapter that is only partly aligned. *)
TotalityWitness ==
    /\ last_resolve # None
    /\ Resolved.audio_time < 0
    /\ \E a, b \in AskedRows : a.start_time # None /\ b.start_time = None
    /\ ~Resolved.raised

(* C3 - resolve_current_sentence raises ValueError exactly when the        *)
(* chapter does not exist or has no sentence, and a resolve call leaves    *)
(* the chapters and sentences tables as they were.                         *)
ResolveRaisesIffNoSentence ==
    [][(last_resolve' # last_resolve /\ last_resolve' # None) =>
          /\ last_resolve'[1].raised <=>
                 \/ \A c \in chapters : c.chapter_id # last_resolve'[1].chapter_id
                 \/ \A r \in sentences : r.chapter_id # last_resolve'[1].chapter_id
          /\ chapters' = chapters
          /\ sentences' = sentences]_vars

(* A call that raised for a chapter that exists and has no sentence yet. *)
RaisesWitness ==
    /\ last_resolve # None
    /\ Resolved.raised
    /\ \E c \in chapters : c.chapter_id = Resolved.chapter_id
    /\ sentences # {}

FallbackToFirst ==
    (last_resolve # None /\ AskedRows # {} /\ StartedBefore = {}) =>
        /\ Resolved.sentence # None
        /\ Resolved.sentence[1] \in AskedRows
        /\ \A o \in AskedRows : Resolved.sentence[1].sequence <= o.sequence

(* A time before the first aligned sentence of a chapter of several. *)
FallbackWitness ==
    /\ last_resolve # None
    /\ Resolved.audio_time >= 0
    /\ StartedBefore = {}
    /\ \E a, b \in AskedRows : a # b /\ a.start_time # None
    /\ Resolved.sentence # None
    /\ Resolved.sentence[1].sequence = 0

----------------------------------------------------------------------------
(* Properties of context assembly (SpecContext).                           *)

(* The request and the result of the build_context call of this behaviour. *)
Built == last_context[1]

(* The token budget in force: max_tokens, or the configured default. *)
BuiltBudget ==
    IF Built.max_tokens = None THEN settings.max_context_tokens ELSE Built.max_tokens[1]

(* The text build_context joins before it truncates. *)
BuiltInFull ==
    Join(ContextParts(GetContextSentences(sentences, Built.current_sentence_id), None),
         <<" ">>)

WasTruncated ==
    /\ BuiltBudget > 0
    /\ Len(BuiltInFull) > BuiltBudget
    /\ TokenCount(BuiltInFull) > BuiltBudget

(* C1 - No future leakage: the text build_context(N) returns, truncated or *)
(* not, holds the text of no stored sentence with sentence_id > N.         *)
NoFutureLeakage ==
    last_context # None =>
        \A r \in sentences :
            r.sentence_id > Built.current_sentence_id => ~Contains(Built.text, r.text)

(* A truncated context of an earlier sentence while later ones are stored. *)
LeakageWitness ==
    /\ last_context # None
    /\ WasTruncated
    /\ Built.text # <<>>
    /\ \E r, f \in sentences :
           /\ r.sentence_id = Built.current_sentence_id
           /\ f.sentence_id > Built.current_sentence_id
           /\ f.chapter_id = r.chapter_id

(* C6 - Truncation bound: for a budget > 0 the returned text has at most   *)
(* budget tokens.                                                          *)
TruncationBound ==
    (last_context # None /\ BuiltBudget > 0) => TokenCount(Built.text) <= BuiltBudget

(* C7 - Truncation preserves recency: for an existing sentence N and a     *)
(* budget > 0 the returned text holds the text of sentence N.              *)
TruncationKeepsCurrent ==
    (last_context # None /\ BuiltBudget > 0) =>
        \A r \in sentences :
            r.sentence_id = Built.current_sentence_id => Contains(Built.text, r.text)

(* C7, the case where the budget covers the whole current sentence. *)
TruncationKeepsCurrentWithinBudget ==
    (last_context # None /\ BuiltBudget > 0) =>
        \A r \in sentences :
            (r.sentence_id = Built.current_sentence_id
             /\ TokenCount(<<" ">> \o r.text) < BuiltBudget) => Contains(Built.text, r.text)

----------------------------------------------------------------------------
(* Properties of the answer pipeline (Spec).                               *)

Steps ==
    <<"resolve_current_sentence", "build_context", "get_context_stats",
      "generate_answer", "synthesize_answer">>

Called(step) == \E i \in 1..Len(calls) : calls[i] = step

Finished == pc = "done" /\ response # None

(* C8 - Synthesis failure degrades gracefully: when synthesize_answer was  *)
(* called and produced no audio, whatever it raised, the request ends with *)
(* a 200 response that carries the answer and a null audio_url.            *)
SynthesisFailureDegrades ==
    (Finished /\ Called("synthesize_answer") /\ audio_url = None) =>
        /\ response[1].status = 200
        /\ response[1].answer = answer_text[1]
        /\ response[1].audio_url = None

(* C9 - Errors of steps 1-3 abort the request: a failed resolution, an     *)
(* empty context or a failed generation ends the request with an error     *)
(* response that carries no answer, and no later step has been called.     *)
ErrorsAbort ==
    Finished =>
        /\ current_sentence = None =>
               /\ response[1].status = 400
               /\ calls = <<"resolve_current_sentence">>
        /\ (context # None /\ context[1] = <<>>) =>
               /\ response[1].status = 400
               /\ ~Called("generate_answer")
               /\ ~Called("synthesize_answer")
        /\ (Called("generate_answer") /\ answer_text = None) =>
               /\ response[1].status = 500
               /\ ~Called("synthesize_answer")
        /\ response[1].status # 200 => "answer" \notin DOMAIN response[1]

(* A request whose context came back empty, the store having been reset   *)
(* after the position was resolved.                                        *)
AbortWitness ==
    /\ Finished
    /\ current_sentence # None
    /\ context = Some(<<>>)
    /\ response[1].status = 400

(* C10 - The steps of one request run in the order resolve, build context  *)
(* (with its stats), generate, synthesize, each at most once and each only *)
(* after the one before it succeeded.                                      *)
StepsInOrder ==
    /\ Len(calls) <= Len(Steps)
    /\ calls = SubSeq(Steps, 1, Len(calls))
    /\ Called("build_context") => current_sentence # None
    /\ Called("generate_answer") => (context # None /\ context[1] # <<>>)
    /\ Called("synthesize_answer") => answer_text # None

(* A request that went through all steps. *)
AllStepsWitness == Finished /\ calls = Steps /\ response[1].status = 200

----------------------------------------------------------------------------
(* Further properties of context assembly (SpecContext).                   *)

(* Where the text of each stored sentence begins in a context, -1 when it  *)
(* is not in it.                                                           *)
PositionsIn(text) == [r \in sentences |-> Find(text, r.text)]

(* Every sentence placed by first is in the text later, in the same order. *)
OrderKept(first, later) ==
    LET placed == {r \in sentences : first[r] # -1}
        kept(second) ==
            /\ \A r \in placed : second[r] # -1
            /\ \A a, b \in placed : first[a] < first[b] <=> second[a] < second[b]
    IN  kept([r \in placed |-> Find(later, r.text)])

(* The sentences placed by first are kept by the untruncated context       *)
(* (max_tokens 0: no limit) of every later sentence id.                    *)
KeptByLaterContexts(id1, first) ==
    \A id2 \in (id1 + 1)..(MaxSentences + 1) :
        OrderKept(first, BuildContext(sentences, settings, id2, Some(0)))

(* C11 - Context monotonic inclusion: every sentence whose text is in the  *)
(* untruncated build_context(id1) is in the untruncated build_context(id2) *)
(* for every id2 > id1 over the same store, and the sentences of the first *)
(* stand in the same relative order in the second.                         *)
MonotonicInclusion ==
    (last_context # None /\ ~WasTruncated) =>
        KeptByLaterContexts(Built.current_sentence_id, PositionsIn(Built.text))

(* An untruncated context of two sentences while a later chapter is stored. *)
MonotonicWitness ==
    /\ last_context # None
    /\ ~WasTruncated
    /\ \E a, b, c \in sentences :
           /\ a.sentence_id < b.sentence_id
           /\ b.sentence_id = Built.current_sentence_id
           /\ c.sentence_id > b.sentence_id
           /\ c.chapter_id # b.chapter_id
           /\ Contains(Built.text, a.text)
           /\ Contains(Built.text, b.text)

(* Narrative order of two rows: by chapter_id, then by sequence. *)
Precedes(a, b) ==
    \/ a.chapter_id < b.chapter_id
    \/ a.chapter_id = b.chapter_id /\ a.sequence < b.sequence

(* The rows of upto stand in narrative order at the places at gives them,  *)
(* and narrative order is sentence_id order.                               *)
InNarrativeOrder(upto, at) ==
    \A a, b \in upto :
        Precedes(a, b) => (at[a] < at[b] /\ a.sentence_id < b.sentence_id)

(* list holds exactly the rows of upto, in narrative order. *)
ListsInOrder(list, upto) ==
    /\ Len(list) = Cardinality(upto)
    /\ {list[i] : i \in 1..Len(list)} = upto
    /\ \A i, j \in 1..Len(list) :
           i < j => /\ Precedes(list[i], list[j])
                    /\ list[i].sentence_id < list[j].sentence_id

(* C12 - Context completeness and order: with no truncation the text of    *)
(* build_context(N) holds the text of every stored sentence with           *)
(* sentence_id <= N exactly once, in (chapter_id, sequence) order, which   *)
(* is increasing sentence_id order; get_context_sentences(N) is the list   *)
(* of exactly those sentences in that order.                               *)
ContextCompleteInOrder ==
    (last_context # None /\ ~WasTruncated) =>
        LET upto == {r \in sentences : r.sentence_id <= Built.current_sentence_id}
        IN  /\ \A r \in upto : Cardinality(Occurrences(Built.text, r.text)) = 1
            /\ InNarrativeOrder(upto, PositionsIn(Built.text))
            /\ ListsInOrder(GetContextSentences(sentences, Built.current_sentence_id), upto)

(* An untruncated context that runs over a whole chapter into the next. *)
CompleteWitness ==
    /\ last_context # None
    /\ ~WasTruncated
    /\ \E a, b, c \in sentences :
           /\ a.chapter_id = b.chapter_id
           /\ a.sequence < b.sequence
           /\ b.chapter_id < c.chapter_id
           /\ c.sentence_id = Built.current_sentence_id
           /\ Find(Built.text, a.text) < Find(Built.text, b.text)
           /\ Find(Built.text, b.text) < Find(Built.text, c.text)

(* The chapter-boundary marker of a chapter as it stands in a context. *)
Marker(chapter_id) ==
    ChapterMark \o <<" ">> \o Str(chapter_id) \o <<" ", "-", "-", "-">>

(* Each row of upto follows the marker of its chapter with no other marker *)
(* between, the first row of a chapter right behind the marker, a newline  *)
(* and the joining blank; at gives the places of the texts, mark those of  *)
(* the markers.                                                            *)
FollowsOwnMarker(upto, at, mark) ==
    \A r \in upto :
        /\ mark[r.chapter_id] < at[r]
        /\ \A c \in DOMAIN mark : ~(mark[r.chapter_id] < mark[c] /\ mark[c] < at[r])
        /\ (\A o \in upto : o.chapter_id = r.chapter_id => r.sequence <= o.sequence)
               => at[r] = mark[r.chapter_id] + Len(Marker(r.chapter_id)) + 2

(* C13 - Chapter markers: the untruncated context holds one marker, with   *)
(* the chapter id, for each chapter that has a sentence in it, the first   *)
(* chapter included, and no other marker; the marker stands immediately    *)
(* before the first included sentence of its chapter, and every sentence   *)
(* text follows the marker of its own chapter with no other marker between.*)
ChapterMarkers ==
    (last_context # None /\ ~WasTruncated) =>
        LET upto == {r \in sentences : r.sentence_id <= Built.current_sentence_id}
            present == {r.chapter_id : r \in upto}
        IN  /\ Cardinality(Occurrences(Built.text, ChapterMark)) = Cardinality(present)
            /\ \A c \in present : Cardinality(Occurrences(Built.text, Marker(c))) = 1
            /\ FollowsOwnMarker(upto, PositionsIn(Built.text),
                                [c \in present |-> Find(Built.text, Marker(c))])

(* An untruncated context with the markers of two chapters. *)
MarkersWitness ==
    /\ last_context # None
    /\ ~WasTruncated
    /\ Contains(Built.text, Marker(1))
    /\ Contains(Built.text, Marker(2))
    /\ Find(Built.text, Marker(1)) = 0

(* C14 - Empty input: when no stored sentence has sentence_id <= N         *)
(* build_context(N) returns the empty text and get_context_stats(N)        *)
(* returns zero for sentence_count, chapter_count and estimated_tokens.    *)
EmptyInput ==
    (last_context # None
     /\ \A r \in sentences : r.sentence_id > Built.current_sentence_id) =>
        /\ Built.text = <<>>
        /\ Built.stats = [sentence_count |-> 0, chapter_count |-> 0, estimated_tokens |-> 0]

(* build_context(0) and get_context_stats(0) over a store with sentences. *)
EmptyWitness ==
    /\ last_context # None
    /\ sentences # {}
    /\ Built.current_sentence_id = 0
    /\ Built.text = <<>>
    /\ Built.stats.sentence_count = 0

(* C15 - Stats are pre-truncation: whatever the budget and whether or not  *)
(* build_context cut the text, sentence_count is the number of stored      *)
(* sentences with sentence_id <= N and chapter_count the number of         *)
(* distinct chapter_ids among them.                                        *)
StatsPreTruncation ==
    last_context # None =>
        LET upto == {r \in sentences : r.sentence_id <= Built.current_sentence_id}
        IN  /\ Built.stats.sentence_count = Cardinality(upto)
            /\ Built.stats.chapter_count = Cardinality({r.chapter_id : r \in upto})

(* A truncated context that lost a sentence the stats still count, while a *)
(* later chapter is stored.                                                *)
StatsWitness ==
    /\ last_context # None
    /\ WasTruncated
    /\ Built.stats.sentence_count >= 2
    /\ \E r, f \in sentences :
           /\ r.sentence_id < Built.current_sentence_id
           /\ ~Contains(Built.text, r.text)
           /\ f.chapter_id > Built.stats.chapter_count

----------------------------------------------------------------------------
(* Properties of truncate_to_tokens (SpecTruncate).                        *)

(* The arguments and the result of the truncate_to_tokens call. *)
Truncated == last_truncate[1]

(* C16 - No truncation within budget: when the token count of the text is  *)
(* at most max_tokens, truncate_to_tokens returns the text as it is.       *)
NoTruncationWithinBudget ==
    (last_truncate # None /\ TokenCount(Truncated.text) <= Truncated.max_tokens) =>
        Truncated.result = Truncated.text

(* A text of exactly max_tokens tokens with a sentence end at its front. *)
WithinBudgetWitness ==
    /\ last_truncate # None
    /\ Truncated.max_tokens >= 2
    /\ TokenCount(Truncated.text) = Truncated.max_tokens
    /\ Find(Truncated.text, SentenceEnd) \in 0..1
    /\ Truncated.result = Truncated.text

(* r is the end of s. *)
IsSuffixOf(r, s) ==
    Len(r) <= Len(s) /\ r = SubSeq(s, Len(s) - Len(r) + 1, Len(s))

(* r is an end of text that begins no earlier than the n-th last token. *)
FromLastTokens(r, text, n) ==
    /\ IsSuffixOf(r, text)
    /\ \/ r = <<>>
       \/ \E s \in Encode(text) :
              /\ s <= Len(text) - Len(r) + 1
              /\ Cardinality({j \in Encode(text) : j >= s}) <= n

(* The result, with or without a leading ellipsis marker, is such an end. *)
KeepsEnd(result, text, n) ==
    \/ FromLastTokens(result, text, n)
    \/ /\ Len(result) >= Len(Ellipsis)
       /\ SubSeq(result, 1, Len(Ellipsis)) = Ellipsis
       /\ FromLastTokens(SliceFrom(result, Len(Ellipsis)), text, n)

(* C17 as stated - Truncation keeps the end: whenever the result is        *)
(* shorter than the text it is, but for an optional leading ellipsis       *)
(* marker, an end of the text made of at most its last max_tokens tokens.  *)
TruncationKeepsEndAsStated ==
    (last_truncate # None /\ Len(Truncated.result) < Len(Truncated.text)) =>
        KeepsEnd(Truncated.result, Truncated.text, Truncated.max_tokens)

(* C17 amended - for max_tokens >= 1 and a text of more than max_tokens    *)
(* tokens the result is, but for an optional leading ellipsis marker, an   *)
(* end of the text made of at most its last max_tokens tokens; nothing is  *)
(* taken from the end of the text.                                         *)
TruncationKeepsEnd ==
    (last_truncate # None /\ Truncated.max_tokens >= 1
     /\ TokenCount(Truncated.text) > Truncated.max_tokens) =>
        KeepsEnd(Truncated.result, Truncated.text, Truncated.max_tokens)

(* A truncation re-aligned at a sentence end inside the kept tokens. *)
KeepsEndWitness ==
    /\ last_truncate # None
    /\ Truncated.max_tokens >= 1
    /\ TokenCount(Truncated.text) > Truncated.max_tokens
    /\ Truncated.result # <<>>
    /\ IsSuffixOf(Truncated.result, Truncated.text)
    /\ TokenCount(Truncated.result) < Truncated.max_tokens

----------------------------------------------------------------------------
(* Properties of serving (SpecServe).                                      *)

(* C18 - The store reads of the resolver and the assembler are read-only:  *)
(* every resolve_current_sentence, build_context and get_context_stats     *)
(* call, in whatever order the calls of the requests fall, leaves the      *)
(* chapters and sentences tables as they were, and so the result a request *)
(* got is the result the same call gives on the store after any number of  *)
(* other requests.                                                         *)
ReadsAreReadOnly ==
    /\ [][(last_resolve' # last_resolve \/ last_context' # last_context) =>
              (chapters' = chapters /\ sentences' = sentences)]_vars
    /\ [](last_context # None =>
              /\ Built.text = BuildContext(sentences, settings, Built.current_sentence_id,
                                           Built.max_tokens)
              /\ Built.stats = GetContextStats(sentences, Built.current_sentence_id))
    /\ [](last_resolve # None =>
              [raised |-> Resolved.raised, sentence |-> Resolved.sentence]
                  \in ResolveCurrentSentence(sentences, Resolved.chapter_id,
                                             Resolved.audio_time))

(* A resolve call and a build_context call both answered from an aligned   *)
(* store.                                                                  *)
ReadOnlyWitness ==
    /\ last_resolve # None
    /\ last_context # None
    /\ Resolved.sentence # None
    /\ Resolved.sentence[1].start_time # None
    /\ Resolved.sentence[1].sentence_id > 1
    /\ Built.stats.sentence_count >= 2

----------------------------------------------------------------------------
(* Further properties of position resolution (SpecResolve).                *)

StartingLater ==
    {r \in AskedRows : r.start_time # None /\ r.start_time[1] > Resolved.audio_time}

AlignedInOrder ==
    \A a, b \in AskedRows :
        (a.start_time # None /\ b.start_time # None /\ a.sequence < b.sequence)
            => a.end_time[1] <= b.start_time[1]

MappingMonotonicAtLaterTimes ==
    (last_resolve # None /\ Resolved.sentence # None /\ AlignedInOrder) =>
        \A t2 \in (Resolved.audio_time + 1)..(MaxTime + 1) :
            \A later \in FindSentenceAtTime(sentences, Resolved.chapter_id, t2) :
                later # None => Resolved.sentence[1].sequence <= later[1].sequence

(* C23 - the reported estimated_tokens is the token count of the text that *)
(* build_context compares with the budget, sentence texts and chapter      *)
(* markers: whenever estimated_tokens <= budget the full text is returned. *)
EstimateDecidesTruncation ==
    (last_context # None /\ BuiltBudget > 0 /\ Built.stats.sentence_count > 0) =>
        /\ Built.stats.estimated_tokens <= BuiltBudget => Built.text = Strip(BuiltInFull)
        /\ Built.stats.estimated_tokens = TokenCount(BuiltInFull)

(* C23, the second half alone: a context reported within the budget is     *)
(* returned in full.                                                       *)
ReportedWithinBudgetIsFull ==
    (last_context # None /\ BuiltBudget > 0 /\ Built.stats.sentence_count > 0
        /\ Built.stats.estimated_tokens <= BuiltBudget)
        => Built.text = Strip(BuiltInFull)

----------------------------------------------------------------------------
(* Boundary re-alignment of truncate_to_tokens (SpecTruncate).             *)

(* The text was cut: it has more tokens than max_tokens. *)
WasCut == last_truncate # None /\ TokenCount(Truncated.text) > Truncated.max_tokens

(* The tokens kept by the cut, before re-alignment. *)
KeptTokens == DecodeLast(Truncated.text, Truncated.max_tokens)

(* The result against one lookahead window: cut at a marker or after a     *)
(* sentence end found inside the window, with the ellipsis marker in front *)
(* only if the window holds neither.                                       *)
RealignedInOneWindow(kept, window) ==
    LET markers == {i \in Occurrences(kept, ChapterMark) : i < window}
        ends == {i \in Occurrences(kept, SentenceEnd) : i < window}
    IN  IF markers # {} \/ ends # {}
            THEN \/ markers # {} /\ Truncated.result = SliceFrom(kept, Min(markers))
                 \/ ends # {} /\ Truncated.result = SliceFrom(kept, Min(ends) + 2)
        ELSE Truncated.result = Ellipsis \o kept

(* C24 as stated - after a cut one fixed lookahead window at the front of  *)
(* the kept text is searched for a chapter marker or a sentence end; if    *)
(* either is inside it the result starts at the marker or right after the  *)
(* sentence end, and only otherwise is the ellipsis marker put in front.   *)
(* The window is the one of the marker search.                             *)
OneLookaheadWindow ==
    WasCut => RealignedInOneWindow(KeptTokens, ChapterWindow)

(* C24 as stated, the window being the one of the sentence-end search. *)
OneShortLookaheadWindow ==
    WasCut => RealignedInOneWindow(KeptTokens, SentenceWindow)

(* The result against the two windows of the code. *)
RealignedInTwoWindows(kept) ==
    LET markers == {i \in Occurrences(kept, ChapterMark) : i < ChapterWindow}
        ends == {i \in Occurrences(kept, SentenceEnd) : i < SentenceWindow}
    IN  IF markers # {} THEN Truncated.result = SliceFrom(kept, Min(markers))
        ELSE IF ends # {} THEN Truncated.result = SliceFrom(kept, Min(ends) + 2)
        ELSE Truncated.result = Ellipsis \o kept

(* C24 amended - after a cut the kept text is searched in two windows: a   *)
(* chapter marker within the first ChapterWindow characters makes the      *)
(* result start at the first marker, whether or not a sentence end comes   *)
(* before it; failing that a sentence end within the first SentenceWindow  *)
(* characters makes it start right after the first sentence end; otherwise *)
(* the ellipsis marker is put in front of the kept text.                   *)
TwoLookaheadWindows ==
    WasCut => RealignedInTwoWindows(KeptTokens)

(* A cut whose first sentence end lies beyond the sentence window but      *)
(* within the marker window, with no marker: the ellipsis is put in front. *)
BetweenWindowsWitness ==
    /\ WasCut
    /\ Truncated.max_tokens >= 1
    /\ ~Contains(KeptTokens, ChapterMark)
    /\ Find(KeptTokens, SentenceEnd) >= SentenceWindow
    /\ Find(KeptTokens, SentenceEnd) < ChapterWindow
    /\ Truncated.result = Ellipsis \o KeptTokens

----------------------------------------------------------------------------
(* update_alignments_batch statement by statement (database.py), as a      *)
(* reader on another connection may meet it.                               *)

(* One UPDATE sentences SET start_time = ?, end_time = ? WHERE sentence_id *)
UpdateRow(rows, a) ==
    {IF r.sentence_id = a.sentence_id
         THEN [r EXCEPT !.start_time = Some(a.start), !.end_time = Some(a.end)]
         ELSE r : r \in rows}

(* [(a.sentence_id, a.start, a.end) for a in alignment.sentences]: the     *)
(* list parse_aeneas_output builds, in the order of the chapter's          *)
(* sentences.                                                              *)
AlignmentList(rows, chapter_id, fragments) ==
    LET list == GetChapterSentences(rows, chapter_id)
    IN  [i \in 1..Min({Len(fragments), Len(list)}) |->
            [sentence_id |-> list[i].sentence_id,
             start |-> fragments[i].begin, end |-> fragments[i].end]]

(* The transaction of the writer is open. *)
InBatch == txn # None /\ txn[1].state = "open"

(* update_alignments_batch entered from align_chapter: the connection is   *)
(* opened; nothing is written yet.                                         *)
BatchBegin ==
    /\ ~InBatch
    /\ \E c \in chapters :
           \E n \in 0..(Cardinality(ChapterRows(sentences, c.chapter_id)) + 1) :
               \E fragments \in FragmentLists(n, 0) :
                   txn' = Some([state |-> "open", before |-> sentences,
                                alignments |-> AlignmentList(sentences, c.chapter_id,
                                                             fragments),
                                done |-> 0, working |-> sentences])
    /\ UNCHANGED <<store_vars, settings, last_agent, last_resolve, last_context,
                   last_truncate, ask_vars>>

(* Variant: the connection in autocommit mode, every UPDATE committed as   *)
(* it is executed.                                                         *)
BatchUpdateAutocommit ==
    /\ InBatch
    /\ txn[1].done < Len(txn[1].alignments)
    /\ txn' = Some([txn[1] EXCEPT
                       !.done = @ + 1,
                       !.working = UpdateRow(@, txn[1].alignments[txn[1].done + 1])])
    /\ sentences' = UpdateRow(txn[1].working, txn[1].alignments[txn[1].done + 1])
    /\ UNCHANGED <<chapters, settings, last_agent, last_resolve, last_context,
                   last_truncate, ask_vars>>

(* executemany: the next UPDATE of the list, executed inside the           *)
(* transaction the first one opened; other connections do not see it.      *)
BatchUpdate ==
    /\ InBatch
    /\ txn[1].done < Len(txn[1].alignments)
    /\ txn' = Some([txn[1] EXCEPT
                       !.done = @ + 1,
                       !.working = UpdateRow(@, txn[1].alignments[txn[1].done + 1])])
    /\ UNCHANGED <<store_vars, settings, last_agent, last_resolve, last_context,
                   last_truncate, ask_vars>>

(* conn.commit() after executemany has returned. *)
BatchCommit ==
    /\ InBatch
    /\ txn[1].done = Len(txn[1].alignments)
    /\ sentences' = txn[1].working
    /\ txn' = Some([txn[1] EXCEPT !.state = "committed"])
    /\ UNCHANGED <<chapters, settings, last_agent, last_resolve, last_context,
                   last_truncate, ask_vars>>

(* An exception before the commit: the finally clause of get_connection    *)
(* closes the connection and the open transaction is rolled back.          *)
BatchFail ==
    /\ InBatch
    /\ txn' = Some([txn[1] EXCEPT !.state = "failed"])
    /\ UNCHANGED <<store_vars, settings, last_agent, last_resolve, last_context,
                   last_truncate, ask_vars>>

InitBatch == InitWith(DefaultSettings)

NextBatch ==
    \/ txn = None /\ IngestChapter
    \/ txn = None /\ IngestSentences({"plain"})
    \/ txn = None /\ AlignAdjacent
    \/ txn = None /\ BatchBegin
    \/ BatchUpdate
    \/ BatchCommit
    \/ BatchFail
    \/ InBatch /\ last_resolve = None /\ Resolve

SpecBatch == InitBatch /\ [][NextBatch]_vars

(* The rows with every update of the list applied. *)
RECURSIVE AllApplied(_, _)
AllApplied(rows, alignments) ==
    IF alignments = <<>> THEN rows
    ELSE AllApplied(UpdateRow(rows, Head(alignments)), Tail(alignments))

(* What the readers return on a table. *)
ReadersOf(rows) ==
    [resolved |-> [q \in (1..MaxChapters) \X (0..MaxTime) |->
                      FindSentenceAtTime(rows, q[1], q[2])],
     listed |-> [c \in 1..MaxChapters |-> GetChapterSentences(rows, c)]]

(* C25 - update_alignments_batch is atomic: while the batch runs and after *)
(* it failed, the readers on other connections get what they got before    *)
(* the call, after the commit what they get with every update applied,     *)
(* never the result of a part of the updates; a failure before the commit  *)
(* leaves the times of every sentence as they were.                        *)
BatchAtomic ==
    txn # None =>
        /\ txn[1].state \in {"open", "failed"} =>
               /\ ReadersOf(sentences) = ReadersOf(txn[1].before)
               /\ sentences = txn[1].before
        /\ txn[1].state = "committed" =>
               /\ ReadersOf(sentences) =
                      ReadersOf(AllApplied(txn[1].before, txn[1].alignments))
               /\ sentences = AllApplied(txn[1].before, txn[1].alignments)

(* A reader answered while the writer had executed a part of the updates,  *)
(* with the answer of the table before the batch, which is not the answer  *)
(* of the rows the writer holds.                                           *)
PartlyWrittenWitness ==
    /\ InBatch
    /\ txn[1].done >= 1
    /\ txn[1].done < Len(txn[1].alignments)
    /\ last_resolve # None
    /\ Resolved.sentence \in FindSentenceAtTime(txn[1].before, Resolved.chapter_id,
                                                 Resolved.audio_time)
    /\ Resolved.sentence \notin FindSentenceAtTime(txn[1].working, Resolved.chapter_id,
                                                    Resolved.audio_time)

----------------------------------------------------------------------------
(* Properties of align_chapter (SpecResolve).                              *)

(* C26 - align_chapter never leaves a chapter half-aligned: chapters are   *)
(* ingested unaligned, and once align_chapter has returned and written     *)
(* times to a chapter, whatever the number of fragments, every sentence of *)
(* the chapter has start_time and end_time, in the order of the fragments. *)
NeverHalfAligned ==
    \A c \in chapters :
        LET list == GetChapterSentences(sentences, c.chapter_id)
        IN  (\E i \in 1..Len(list) : list[i].start_time # None) =>
                /\ \A i \in 1..Len(list) :
                       list[i].start_time # None /\ list[i].end_time # None
                /\ \A i, j \in 1..Len(list) :
                       i < j => list[i].end_time[1] <= list[j].start_time[1]

----------------------------------------------------------------------------
(* api/routes/agent.py: GET /agent/context                                 *)

(* get_chapter: the row of the chapter, None when there is none. *)
GetChapter(chs, chapter_id) ==
    IF \E c \in chs : c.chapter_id = chapter_id
        THEN Some(CHOOSE c \in chs : c.chapter_id = chapter_id)
        ELSE None

(* get_chapter_alignment: WHERE chapter_id = ? AND start_time IS NOT NULL  *)
(* ORDER BY sequence                                                       *)
GetChapterAlignment(rows, chapter_id) ==
    OrderBy({r \in ChapterRows(rows, chapter_id) : r.start_time # None},
            [r \in rows |-> r.sequence])

(* str.split(): the words of s, cut at runs of whitespace. *)
RECURSIVE Split(_)
Split(s) ==
    IF s = <<>> THEN <<>>
    ELSE IF Head(s) \in Whitespace THEN Split(Tail(s))
    ELSE LET blanks == {i \in 1..Len(s) : s[i] \in Whitespace}
             n == IF blanks = {} THEN Len(s) ELSE Min(blanks) - 1
         IN  <<SubSeq(s, 1, n)>> \o Split(SubSeq(s, n + 1, Len(s)))

(* words[-n:] as Python takes the slice: the last n words for n > 0, every *)
(* word for n = 0, words[k:] for n = -k < 0.                               *)
LastWords(words, n) ==
    IF n > 0 THEN SubSeq(words, Max({Len(words) - n, 0}) + 1, Len(words))
    ELSE IF n = 0 THEN words
    ELSE SubSeq(words, (0 - n) + 1, Len(words))

(* Variant: the first sentence that has started, its end not looked at. *)
CurrentSentenceStarted(alignment, audio_time) ==
    LET hits == {i \in 1..Len(alignment) : audio_time >= alignment[i].start_time[1]}
    IN  IF hits = {} THEN None ELSE Some(alignment[Min(hits)])

(* The loop over the alignment: the first sentence, in sequence order,     *)
(* with start_time <= audio_time <= end_time; None when the loop ends      *)
(* without a break.                                                        *)
CurrentSentenceAt(alignment, audio_time) ==
    LET hits == {i \in 1..Len(alignment) :
                     /\ audio_time >= alignment[i].start_time[1]
                     /\ audio_time <= alignment[i].end_time[1]}
    IN  IF hits = {} THEN None ELSE Some(alignment[Min(hits)])

(* Variant: the sentences that have started count as heard. *)
SentencesHeardStarted(alignment, audio_time) ==
    LET heard == {i \in 1..Len(alignment) : alignment[i].start_time[1] <= audio_time}
        nth(k) == CHOOSE i \in heard : Cardinality({j \in heard : j < i}) = k - 1
    IN  [k \in 1..Cardinality(heard) |-> alignment[nth(k)].text]

(* [s.text for s in alignment if s.end_time <= audio_time] *)
SentencesHeard(alignment, audio_time) ==
    LET heard == {i \in 1..Len(alignment) : alignment[i].end_time[1] <= audio_time}
        nth(k) == CHOOSE i \in heard : Cardinality({j \in heard : j < i}) = k - 1
    IN  [k \in 1..Cardinality(heard) |-> alignment[nth(k)].text]

ContextResponse(chapter, current, text_heard, word_count) ==
    [status |-> 200, chapter_id |-> chapter.chapter_id, chapter_title |-> chapter.title,
     sentence_id |-> IF current = None THEN None ELSE Some(current[1].sentence_id),
     current_sentence |-> IF current = None THEN None ELSE Some(current[1].text),
     text_heard_so_far |-> text_heard, word_count |-> word_count]

(* get_context: the response of the route. *)
GetContext(chs, rows, cfg, chapter_id, audio_time) ==
    LET chapter == GetChapter(chs, chapter_id)
        alignment == GetChapterAlignment(rows, chapter_id)
        text_heard == Join(SentencesHeard(alignment, audio_time), <<" ">>)
        max_words == cfg.max_context_words
        words == Split(text_heard)
    IN  IF chapter = None THEN HttpError(404, "Chapter not found")
        ELSE IF alignment = <<>> THEN HttpError(404, "Alignment not available")
        ELSE IF Len(words) > max_words
            THEN ContextResponse(chapter[1], CurrentSentenceAt(alignment, audio_time),
                                 <<".", ".", ".">> \o Join(LastWords(words, max_words), <<" ">>),
                                 max_words)
        ELSE ContextResponse(chapter[1], CurrentSentenceAt(alignment, audio_time),
                             text_heard, Len(words))

(* GET /agent/context?chapter_id=..&audio_time=.. of one request. *)
AgentContext ==
    \E chapter_id \in 1..(MaxChapters + 1), audio_time \in (-1)..(MaxTime + 1) :
        /\ last_agent' = Some([chapter_id |-> chapter_id, audio_time |-> audio_time,
                                response |-> GetContext(chapters, sentences, settings,
                                                        chapter_id, audio_time)])
        /\ UNCHANGED <<store_vars, settings, txn, last_resolve, last_context,
                       last_truncate, ask_vars>>

(* align_chapter for one chapter whose n fragments follow one another      *)
(* without a gap, [0, 1], [1, 2], ..., fewer than, as many as or more than *)
(* the chapter has sentences.                                              *)
AlignAdjacentPrefix ==
    \E c \in chapters :
        \E n \in 0..(Cardinality(ChapterRows(sentences, c.chapter_id)) + 1) :
            AlignChapter(c.chapter_id, FALSE,
                         [i \in 1..n |->
                              [begin |-> Min({i - 1, MaxTime}), end |-> Min({i, MaxTime})]])

(* The agent route over ingested and aligned stores, max_context_words     *)
(* small or the default.                                                   *)
InitAgent ==
    \E n \in (0..MaxWords) \cup {DefaultMaxContextWords} :
        InitWith([DefaultSettings EXCEPT !.max_context_words = n])

NextAgent ==
    \/ last_agent = None /\ IngestChapter
    \/ last_agent = None /\ IngestSentences({"plain", "open"})
    \/ last_agent = None /\ AlignAdjacentPrefix
    \/ last_agent = None /\ AgentContext

SpecAgent == InitAgent /\ [][NextAgent]_vars

----------------------------------------------------------------------------
(* Properties of GET /agent/context (SpecAgent).                           *)

(* The request and the response of the agent call of this behaviour. *)
Agent == last_agent[1]

AgentAnswered == last_agent # None /\ Agent.response.status = 200

(* The rows of the requested chapter that ended at or before the requested *)
(* time, and their texts in sequence order joined by blanks.               *)
HeardRows ==
    {r \in sentences : /\ r.chapter_id = Agent.chapter_id
                        /\ r.start_time # None /\ r.end_time # None
                        /\ r.end_time[1] <= Agent.audio_time}

HeardInFull ==
    LET list == OrderBy(HeardRows, [r \in sentences |-> r.sequence])
    IN  Join([i \in 1..Len(list) |-> list[i].text], <<" ">>)

(* No sentence of the store outside the heard rows is in the text. *)
OnlyHeard ==
    \A r \in sentences \ HeardRows : ~Contains(Agent.response.text_heard_so_far, r.text)

(* The last n of the words, joined by blanks. *)
LastJoined(words, n) ==
    Join(SubSeq(words, Len(words) - n + 1, Len(words)), <<" ">>)

(* C27 as stated - text_heard_so_far is built only from the aligned        *)
(* sentences of the chapter with end_time <= audio_time, in sequence       *)
(* order, and with more than max_context_words words it is its last        *)
(* max_context_words words, word_count being max_context_words.            *)
HeardTextAsStated ==
    AgentAnswered =>
        LET words == Split(HeardInFull)
            n == settings.max_context_words
        IN  /\ OnlyHeard
            /\ IF Len(words) > n
                   THEN /\ Agent.response.text_heard_so_far = LastJoined(words, n)
                        /\ Agent.response.word_count = n
                   ELSE /\ Agent.response.text_heard_so_far = HeardInFull
                        /\ Agent.response.word_count = Len(words)

(* C27 amended - the same, but the reduced text is "..." put directly in   *)
(* front of the last max_context_words words, and with max_context_words   *)
(* 0 it is "..." in front of every word while word_count is 0.             *)
HeardText ==
    AgentAnswered =>
        LET words == Split(HeardInFull)
            n == settings.max_context_words
        IN  /\ OnlyHeard
            /\ IF Len(words) > n
                   THEN /\ Agent.response.text_heard_so_far =
                               <<".", ".", ".">>
                                   \o LastJoined(words, IF n >= 1 THEN n ELSE Len(words))
                        /\ Agent.response.word_count = n
                   ELSE /\ Agent.response.text_heard_so_far = HeardInFull
                        /\ Agent.response.word_count = Len(words)

(* A text reduced to fewer words than were heard, the cut inside a         *)
(* sentence, while another sentence of the chapter has not ended.          *)
ReducedWitness ==
    /\ AgentAnswered
    /\ settings.max_context_words >= 1
    /\ Len(Split(HeardInFull)) > settings.max_context_words
    /\ Agent.response.word_count = settings.max_context_words
    /\ \E r \in HeardRows :
           Len(Split(r.text)) = 2 /\ ~Contains(Agent.response.text_heard_so_far, r.text)
    /\ \E r \in sentences \ HeardRows : r.chapter_id = Agent.chapter_id

----------------------------------------------------------------------------
(* ask_question over a store that is not written while requests run.       *)

InitAsk == \E cfg \in SettingsChoices : InitWith(cfg)

NextAsk ==
    \/ pc = "idle" /\ IngestChapter
    \/ pc = "idle" /\ IngestSentences({"plain"})
    \/ pc = "idle" /\ AlignAdjacent
    \/ AskStart
    \/ AskResolve
    \/ AskBuildContext
    \/ AskContextStats
    \/ AskGenerate
    \/ AskSynthesize

SpecAsk == InitAsk /\ [][NextAsk]_vars

(* The context of the request in progress has been built, and the text     *)
(* joined for the resolved sentence is within the configured budget.       *)
ContextBuiltWithinBudget ==
    /\ current_sentence # None
    /\ context # None
    /\ TokenCount(Join(ContextParts(
                           GetContextSentences(sentences, current_sentence[1].sentence_id),
                           None), <<" ">>)) <= settings.max_context_tokens

(* C28 - with the store unchanged between the reads and the context within *)
(* the token budget, the context built for the resolved sentence holds the *)
(* text of that sentence and is not empty, and the request does not end    *)
(* with 'No narrative context available'.                                  *)
ResolvedSentenceInContext ==
    ContextBuiltWithinBudget =>
        /\ Contains(context[1], current_sentence[1].text)
        /\ context[1] # <<>>
        /\ response # None => response[1] # HttpError(400, "No narrative context available")

(* A request answered for a sentence found by its interval, not the first  *)
(* of its chapter, the whole context within the budget.                    *)
InContextWitness ==
    /\ ContextBuiltWithinBudget
    /\ current_sentence[1].sequence >= 1
    /\ current_sentence[1].start_time # None
    /\ response # None
    /\ response[1].status = 200

----------------------------------------------------------------------------
(* The three store reads of one ask_question request (Spec).               *)

(* The ids of the sentences whose text is in the context of the request. *)
IncludedIds ==
    {id \in 1..MaxSentences : Contains(context[1], TextOf(id, "plain"))}

Answered == response # None /\ response[1].status = 200

(* C29 as stated - for every interleaving of the three reads with          *)
(* committed ingestion writes, the returned context_sentence_count is the  *)
(* number of sentences whose text is in the context handed to              *)
(* generate_answer, and current_sentence_id is the id of one of them.      *)
CountMatchesContext ==
    Answered =>
        /\ response[1].context_sentence_count = Cardinality(IncludedIds)
        /\ response[1].current_sentence_id \in IncludedIds

(* C29 as stated, for the default budget only, where nothing is cut. *)
CountMatchesUncutContext ==
    (Answered /\ settings.max_context_tokens = DefaultMaxContextTokens) =>
        /\ response[1].context_sentence_count = Cardinality(IncludedIds)
        /\ response[1].current_sentence_id \in IncludedIds

(* The store read by get_context_stats still gives the context that        *)
(* build_context returned, still holds the resolved sentence, and the      *)
(* joined text is within the budget.                                       *)
ReadsAgree ==
    /\ current_sentence[1] \in sentences
    /\ context[1] = BuildContext(sentences, settings, current_sentence[1].sentence_id, None)
    /\ TokenCount(Join(ContextParts(
                           GetContextSentences(sentences, current_sentence[1].sentence_id),
                           None), <<" ">>)) <= settings.max_context_tokens

(* C29 amended - the response carries the id resolved by the first read    *)
(* and the sentence_count of the third read; when the store of the third   *)
(* read still gives the context of the second and holds the resolved       *)
(* sentence, and the context is within the budget, that count is the       *)
(* number of sentences in the context and the id is one of them.  Writes   *)
(* between the reads, or a cut context, break the equality.                *)
CountMatchesContextOnSameStore ==
    /\ [][(pc = "stats" /\ pc' # "stats" /\ ReadsAgree) =>
              /\ context_stats'[1].sentence_count = Cardinality(IncludedIds)
              /\ current_sentence[1].sentence_id \in IncludedIds]_vars
    /\ [](Answered =>
              /\ response[1].context_sentence_count = context_stats[1].sentence_count
              /\ response[1].current_sentence_id = current_sentence[1].sentence_id)

(* A request answered with the count of the two sentences in its context. *)
CountWitness ==
    /\ Answered
    /\ response[1].context_sentence_count >= 2
    /\ response[1].context_sentence_count = Cardinality(IncludedIds)
    /\ response[1].current_sentence_id \in IncludedIds

----------------------------------------------------------------------------
(* The two position resolvers asked for the same position.                 *)

InitAgree == InitWith(DefaultSettings)

NextAgree ==
    \/ last_agent = None /\ IngestChapter
    \/ last_agent = None /\ IngestSentences({"plain"})
    \/ last_agent = None /\ Align({FALSE})
    \/ last_agent = None /\ AgentContext
    \/ /\ last_agent # None
       /\ last_resolve = None
       /\ Resolve
       /\ last_resolve'[1].chapter_id = last_agent[1].chapter_id
       /\ last_resolve'[1].audio_time = last_agent[1].audio_time

SpecAgree == InitAgree /\ [][NextAgree]_vars

(* Both resolvers have answered, and exactly one aligned interval of the   *)
(* chapter holds the requested time.                                       *)
InExactlyOneInterval ==
    /\ last_agent # None
    /\ last_resolve # None
    /\ Cardinality(Holding) = 1

(* C30 - the two position resolvers agree: when exactly one aligned        *)
(* interval of the chapter holds audio_time, GET /agent/context reports    *)
(* the sentence_id that resolve_current_sentence returns.                  *)
ResolversAgree ==
    InExactlyOneInterval =>
        /\ Agent.response.status = 200
        /\ Resolved.sentence # None
        /\ Agent.response.sentence_id = Some(Resolved.sentence[1].sentence_id)
        /\ Resolved.sentence[1] \in Holding

(* Both resolvers answered with a later sentence of a chapter, found in    *)
(* its interval after an earlier sentence had ended.                       *)
AgreeWitness ==
    /\ InExactlyOneInterval
    /\ Agent.response.status = 200
    /\ Agent.response.sentence_id = Some(Resolved.sentence[1].sentence_id)
    /\ Resolved.sentence[1].sequence >= 1
    /\ \E r \in AskedRows : r.end_time # None /\ r.end_time[1] < Resolved.audio_time

====
